---- MODULE Spec2Model ----
(***************************************************************************)
(* Model of the temperature readout application: the SessionManager's      *)
(* connection state machine (StartConnect / AsyncConnect / HandleConnect), *)
(* its receive loop (ReceiveTemperatureData) and its aggregation display   *)
(* (DisplayTemperatureData), run by the io_context worker thread(s) while  *)
(* the main thread constructs the SessionManager, calls Start and joins.   *)
(*                                                                         *)
(* Time is the value of SystemClock_t::now() in whole seconds.  Readings   *)
(* are the received characters; temperatures are counted in tenths of a    *)
(* degree Celsius.                                                         *)
(***************************************************************************)
EXTENDS Integers, Sequences, FiniteSets, TLC

(* ------------------------- program constants --------------------------- *)

MINIMUM_DISPLAY_INTERVAL_SECONDS == 1

STALE_READING_DURATION_MINUTES == 10

Mutant_TwoWorkerThreads == 1 + 1

DISPATCHER_THREAD_POOL_SIZE == 1

(* ------------------------------ bounds --------------------------------- *)

\* "Assume some default number of sensor nodes then. Feel free though to
\* change the number of sensor nodes when instantiating the template for
\* different unit test scenarios."  The default is 4; the model keeps the
\* table this small.
NUMBER_OF_SENSOR_NODES == 2

\* The clock is sampled at the seconds 0 .. MaxSeconds after construction
\* and at the last second of the first staleness window and the one after.
MaxSeconds == 1

\* Read completions (successful or failed) delivered over a run.
MaxReads == 2

\* Endpoints a resolver query may return.
MaxCandidates == 2

(* ------------------------------ domains -------------------------------- *)

Sensors == 0 .. (NUMBER_OF_SENSOR_NODES - 1)

Threads == 1 .. DISPATCHER_THREAD_POOL_SIZE

\* Seconds_t(MINIMUM_DISPLAY_INTERVAL_SECONDS), in seconds.
MinDisplayInterval == MINIMUM_DISPLAY_INTERVAL_SECONDS

\* std::chrono::minutes(STALE_READING_DURATION_MINUTES), in seconds.
StaleWindow == STALE_READING_DURATION_MINUTES * 60

\* The instants at which the system clock is sampled: the first seconds,
\* and the instant a reading of second 0 turns stale (a reading of second 1
\* is then one second short of stale).
Instants ==
    (0 .. MaxSeconds) \cup { StaleWindow }

\* What a sensor node may put on the wire in one read: the decimal text of a
\* temperature (at most one fractional digit here), or text that is no number.
Payloads ==
    { <<"1", "0", ".", "0">>,
      <<"4", "0", ".", "0">>,
      <<"n", "/", "a">> }

(* --------------------------- pure functions ---------------------------- *)

Digits == {"0", "1", "2", "3", "4", "5", "6", "7", "8", "9"}

DigitValue(c) ==
    CASE c = "0" -> 0 [] c = "1" -> 1 [] c = "2" -> 2 [] c = "3" -> 3
      [] c = "4" -> 4 [] c = "5" -> 5 [] c = "6" -> 6 [] c = "7" -> 7
      [] c = "8" -> 8 [] c = "9" -> 9

\* Position of the first character of s at or after p that is not white space.
RECURSIVE SkipSpace(_, _)
SkipSpace(s, p) ==
    IF p <= Len(s) /\ s[p] \in {" ", "\n", "\t", "\r"}
    THEN SkipSpace(s, p + 1)
    ELSE p

\* Reads the run of digits of s that starts at p: <<value, digits read>>,
\* continuing from the value acc and the count n.
RECURSIVE ReadDigits(_, _, _, _)
ReadDigits(s, p, acc, n) ==
    IF p <= Len(s) /\ s[p] \in Digits
    THEN ReadDigits(s, p + 1, acc * 10 + DigitValue(s[p]), n + 1)
    ELSE <<acc, n>>

\* std::stod on the stored reading: skips leading white space, takes an
\* optional sign, then the longest run of digits with an optional decimal
\* point; what follows is ignored.  With no digit at all it throws
\* std::invalid_argument (ok = FALSE).  The value is in tenths of a degree;
\* fractional digits after the first are dropped, the payloads carry none.
Stod(s) ==
    LET p0   == SkipSpace(s, 1)
        neg  == p0 <= Len(s) /\ s[p0] = "-"
        p1   == IF p0 <= Len(s) /\ s[p0] \in {"-", "+"} THEN p0 + 1 ELSE p0
        int  == ReadDigits(s, p1, 0, 0)
        p2   == p1 + int[2]
        dot  == p2 <= Len(s) /\ s[p2] = "."
        frac == IF dot THEN ReadDigits(s, p2 + 1, 0, 0) ELSE <<0, 0>>
        d1   == IF frac[2] > 0 THEN DigitValue(s[p2 + 1]) ELSE 0
        mag  == int[1] * 10 + d1
    IN  [ ok  |-> int[2] + frac[2] > 0,
          val |-> IF neg THEN 0 - mag ELSE mag ]

\* std::fixed << std::setprecision(1) of sum / count: the quotient rounded
\* to the nearest tenth.
FormatFixed1(sum, count) ==
    IF sum >= 0
    THEN (2 * sum + count) \div (2 * count)
    ELSE 0 - ((2 * (0 - sum) + count) \div (2 * count))

\* The lines the readout can show.
SentinelLine == <<"--.-", 0>>

Mutant_InitialLineAverage == <<"nan", 0>>

\* The constructor's initial display (line 233).
InitialLine == SentinelLine

ValueLine(tenths) == <<"value", tenths>>

\* 0.0 / 0 is a NaN; the stream prints it as "nan" or "-nan" according to
\* the sign bit the platform's division leaves.
NaNLines == { <<"nan", 0>>, <<"-nan", 0>> }

(* ------------------------------- state --------------------------------- *)

VARIABLES
    now,                         \* SystemClock_t::now()
    binding,                     \* what the bound handlers' `sensor` is
    reading,                     \* m_TheCustomerSensors[i].m_CurrentTemperatureReading
    readingTime,                 \* m_TheCustomerSensors[i].m_CurrentReadingTime
    socketOpen,                  \* m_ConnectionSocket->is_open()
    pending,                     \* the asynchronous operation outstanding on the socket
    outstandingReads,            \* async_receive calls started on the socket, not yet completed
    endpointIter,                \* position of the bound resolver iterator (1-based)
    endpoints,                   \* number of endpoints the iterator ranges over
    gaveUp,                      \* which give-up message was logged for the slot
    m_NumberOfConnectedSockets,
    allConnectedTraces,          \* "ALL temperature sensor nodes have been ..." lines logged
    m_TheDisplayMutex,           \* 0 when free, else the thread holding it
    m_LastReadoutTime,
    posted,                      \* DisplayTemperatureData calls posted, not yet run
    thr,                         \* each worker thread's position in its handler
    mainPc,                      \* main(): next slot to StartConnect, then join
    reads,                       \* read completions delivered so far
    committed,                   \* the (reading, time) pair of each slot's last whole update
    line,                        \* the last line written to the readout
    lineAt,                      \* clock value when it was written
    renders,                     \* lines written so far
    stopped                      \* g_DispatcherIOContext.stop() has been called

vars ==
    << now, binding, reading, readingTime, socketOpen, pending,
       outstandingReads, endpointIter,
       endpoints, gaveUp, m_NumberOfConnectedSockets, allConnectedTraces,
       m_TheDisplayMutex,
       m_LastReadoutTime, posted, thr, mainPc, reads, committed,
       line, lineAt, renders, stopped >>

slotVars == << reading, readingTime, committed >>

connVars ==
    << socketOpen, pending, outstandingReads, endpointIter, endpoints, gaveUp,
       m_NumberOfConnectedSockets, allConnectedTraces >>

displayVars ==
    << m_TheDisplayMutex, m_LastReadoutTime, line, lineAt, renders >>

Idle == [ pc |-> "idle", s |-> 0, timeNow |-> 0, used |-> {}, torn |-> FALSE,
         out |-> << >> ]

(* ----------------------------- construction ---------------------------- *)

Mutant_InitialReadingTimeRecent == 0 - MINIMUM_DISPLAY_INTERVAL_SECONDS

\* Lines 220-221: a slot's reading time at construction, the clock (0 here)
\* less one minute more than the staleness window.
InitialReadingTime == 0 - (STALE_READING_DURATION_MINUTES + 1) * 60

\* SessionManager::SessionManager, run by main() before Start: every slot
\* has no reading and a reading time one minute older than the staleness
\* window; the initial "--.- °C" is displayed under the display mutex.
Init ==
    /\ now = 0
    /\ binding \in {"slot", "copy"}
    /\ reading = [i \in Sensors |-> << >>]
    /\ readingTime = [i \in Sensors |-> InitialReadingTime]
    /\ socketOpen = [i \in Sensors |-> FALSE]
    /\ pending = [i \in Sensors |-> "none"]
    /\ outstandingReads = [i \in Sensors |-> 0]
    /\ endpointIter = [i \in Sensors |-> 0]
    /\ endpoints = [i \in Sensors |-> 0]
    /\ gaveUp = [i \in Sensors |-> "no"]
    /\ m_NumberOfConnectedSockets = 0
    /\ allConnectedTraces = 0
    /\ m_TheDisplayMutex = 0
    /\ m_LastReadoutTime = 0
    /\ posted = 0
    /\ thr = [t \in Threads |-> Idle]
    /\ mainPc = 0
    /\ reads = 0
    /\ committed = [i \in Sensors |->
                      << << >>, InitialReadingTime >>]
    /\ line = InitialLine
    /\ lineAt = 0
    /\ renders = 1
    /\ stopped = FALSE

(* ----------------------------- the clock ------------------------------- *)

\* Time passes: the clock moves to a later sampled instant.
Tick ==
    /\ \E t \in Instants : t > now /\ now' = t
    /\ UNCHANGED << binding, stopped, slotVars, connVars, displayVars, posted, thr,
                    mainPc, reads >>

(* --------------------------- connection agent -------------------------- *)

Mutant_ReceiveStartsTwo(n) == n + 2

\* SessionManager::ReceiveTemperatureData(sensor): one async_receive is
\* started on the slot's socket, n being the reads outstanding before.
ReceiveTemperatureData(n) == n + 1

\* SessionManager::AsyncConnect(sensor, it) for slot i, called with the
\* iterator at position it of n endpoints.  The iterator lives in the bound
\* handler: it is gone (0 of 0) once no connect handler is outstanding.
AsyncConnect(i, it, n) ==
    IF ~socketOpen[i]
    THEN IF it <= n
         THEN \* async_connect opens the socket and starts the attempt.
              /\ socketOpen' = [socketOpen EXCEPT ![i] = TRUE]
              /\ pending' = [pending EXCEPT ![i] = "connect"]
              /\ endpointIter' = [endpointIter EXCEPT ![i] = it]
              /\ endpoints' = [endpoints EXCEPT ![i] = n]
              /\ gaveUp' = gaveUp
         ELSE \* "Giving up on connecting ... Exhausted resolved endpoints list!"
              /\ gaveUp' = [gaveUp EXCEPT ![i] = "exhausted"]
              /\ endpointIter' = [endpointIter EXCEPT ![i] = 0]
              /\ endpoints' = [endpoints EXCEPT ![i] = 0]
              /\ UNCHANGED << socketOpen, pending >>
    ELSE \* The socket is open: nothing is started and nothing is logged.
         /\ endpointIter' = [endpointIter EXCEPT ![i] = 0]
         /\ endpoints' = [endpoints EXCEPT ![i] = 0]
         /\ UNCHANGED << socketOpen, pending, gaveUp >>

Mutant_StartEndsAfterSlot(i) == NUMBER_OF_SENSOR_NODES

\* The range-for of SessionManager::Start: after StartConnect returns for
\* slot i, whatever it did, the loop goes on with the next slot.
NextSensor(i) == i + 1

\* SessionManager::Start / StartConnect on the main thread: the next slot's
\* host and port are resolved to n endpoints; with none, the error is logged
\* and nothing is started for the slot.
StartConnect ==
    /\ mainPc \in Sensors
    /\ mainPc' = NextSensor(mainPc)
    /\ \E n \in 0 .. MaxCandidates :
         IF n > 0
         THEN AsyncConnect(mainPc, 1, n)
         ELSE /\ gaveUp' = [gaveUp EXCEPT ![mainPc] = "unresolved"]
              /\ UNCHANGED << socketOpen, pending, endpointIter, endpoints >>
    /\ UNCHANGED << now, binding, stopped, slotVars, m_NumberOfConnectedSockets,
                    allConnectedTraces, outstandingReads, displayVars, posted,
                    thr, reads >>

Mutant_ConnectedNotCounted(n) == n

\* Line 339: ++m_NumberOfConnectedSockets.
IncrementConnected(n) == n + 1

Mutant_SocketLeftOpen(error, open) == open

\* The socket after a connect attempt that did not connect: closed by line
\* 369 when the attempt failed.
SocketAfterAttempt(error, open) == IF error THEN FALSE ELSE open

\* SessionManager::HandleConnect starts on worker thread t for slot i, with
\* the error code the connect attempt completed with.  Connected, it counts
\* the socket and starts the receive loop.  Otherwise it goes on to the next
\* endpoint, after close() when the attempt failed (line 369).
HandleConnect(t, i) ==
    /\ thr[t].pc = "idle"
    /\ ~stopped
    /\ pending[i] = "connect"
    /\ \E error \in BOOLEAN :
         IF ~error /\ socketOpen[i]
         THEN /\ m_NumberOfConnectedSockets' =
                    IncrementConnected(m_NumberOfConnectedSockets)
              /\ allConnectedTraces' =
                    IF NUMBER_OF_SENSOR_NODES = m_NumberOfConnectedSockets'
                    THEN allConnectedTraces + 1
                    ELSE allConnectedTraces
              /\ pending' = [pending EXCEPT ![i] = "receive"]
              /\ outstandingReads' =
                    [outstandingReads EXCEPT ![i] = ReceiveTemperatureData(@)]
              /\ endpointIter' = [endpointIter EXCEPT ![i] = 0]
              /\ endpoints' = [endpoints EXCEPT ![i] = 0]
              /\ UNCHANGED << socketOpen, thr >>
         ELSE /\ pending' = [pending EXCEPT ![i] = "none"]
              /\ socketOpen' = [socketOpen EXCEPT ![i] = SocketAfterAttempt(error, @)]
              /\ thr' = [thr EXCEPT ![t] = [Idle EXCEPT !.pc = "conn372", !.s = i]]
              /\ UNCHANGED << m_NumberOfConnectedSockets, allConnectedTraces,
                              outstandingReads, endpointIter, endpoints >>
    /\ UNCHANGED << now, binding, stopped, slotVars, gaveUp, displayVars, posted, mainPc,
                    reads >>

\* Lines 331 and 372: AsyncConnect(sensor, ++endpointIter).
HandleConnectNext(t) ==
    /\ thr[t].pc = "conn372"
    /\ LET i == thr[t].s IN AsyncConnect(i, endpointIter[i] + 1, endpoints[i])
    /\ thr' = [thr EXCEPT ![t] = Idle]
    /\ UNCHANGED << now, binding, stopped, slotVars, m_NumberOfConnectedSockets,
                    allConnectedTraces, outstandingReads, displayVars, posted,
                    mainPc, reads >>

(* ------------------------------ receive loop --------------------------- *)

\* The handlers are bound to the slot of the table, or to a copy of the
\* SensorNode_t made when the handler was bound; a write through the copy
\* does not reach the table.
WritesTable == binding = "slot"

Mutant_NoReadAfterError == "none"

Mutant_ConnectAfterError == "connect"

\* The operation outstanding on the socket once a completion handler that
\* was given an error has returned: line 441 sets the read up again.
PendingAfterError == "receive"

Mutant_SlotWrittenFirst(i) == i - i

\* Line 398: the completion handler of slot i assigns the payload to
\* sensor.m_CurrentTemperatureReading, the reading of the slot it was set up
\* for.
SlotWritten(i) == i

\* The async_receive completion handler starts on worker thread t for slot i.
\* With an error it logs and re-arms the read.  Without, it stores the
\* received characters as the slot's reading (line 398).
ReceiveCompletion(t, i) ==
    /\ thr[t].pc = "idle"
    /\ ~stopped
    /\ pending[i] = "receive"
    /\ reads < MaxReads
    /\ reads' = reads + 1
    /\ \E error \in BOOLEAN :
         IF error
         THEN /\ pending' = [pending EXCEPT ![i] = PendingAfterError]
              /\ outstandingReads' =
                    [outstandingReads EXCEPT ![i] = ReceiveTemperatureData(@ - 1)]
              /\ UNCHANGED << reading, thr >>
         ELSE \E data \in Payloads :
                /\ reading' = IF WritesTable
                              THEN [reading EXCEPT ![SlotWritten(i)] = data]
                              ELSE reading
                /\ thr' = [thr EXCEPT ![t] =
                             [Idle EXCEPT !.pc = "recv401", !.s = i]]
                /\ pending' = [pending EXCEPT ![i] = "none"]
                /\ outstandingReads' = [outstandingReads EXCEPT ![i] = @ - 1]
    /\ UNCHANGED << now, binding, stopped, readingTime, committed, socketOpen,
                    endpointIter, endpoints, gaveUp, m_NumberOfConnectedSockets,
                    allConnectedTraces, displayVars, posted, mainPc >>

\* The rest of the successful completion: the reading time is noted (line
\* 401), DisplayTemperatureData is posted to the io_context, and the read is
\* set up again.
ReceiveStoreTime(t) ==
    /\ thr[t].pc = "recv401"
    /\ LET i == thr[t].s IN
         /\ readingTime' = IF WritesTable
                           THEN [readingTime EXCEPT ![i] = now]
                           ELSE readingTime
         /\ committed' = IF WritesTable
                         THEN [committed EXCEPT ![i] = << reading[i], now >>]
                         ELSE committed
         /\ pending' = [pending EXCEPT ![i] = "receive"]
         /\ outstandingReads' =
               [outstandingReads EXCEPT ![i] = ReceiveTemperatureData(@)]
    /\ posted' = posted + 1
    /\ thr' = [thr EXCEPT ![t] = Idle]
    /\ UNCHANGED << now, binding, stopped, reading, socketOpen, endpointIter, endpoints,
                    gaveUp, m_NumberOfConnectedSockets, allConnectedTraces,
                    displayVars, mainPc, reads >>

(* --------------------------- display engine ---------------------------- *)

Mutant_FreshInclusive(i, timeNow) == (timeNow - readingTime[i]) <= StaleWindow

\* The staleness test of line 477 for slot i at the pass's timeNow.
Fresh(i, timeNow) == (timeNow - readingTime[i]) < StaleWindow

Mutant_ContributorsAnyAge(timeNow) == { i \in Sensors : reading[i] # << >> }

\* The slots the loop of lines 470-487 adds to the average.
Contributors(timeNow) ==
    { i \in Sensors : Fresh(i, timeNow) /\ reading[i] # << >> }

RECURSIVE SumOf(_)
SumOf(S) ==
    IF S = {} THEN 0
    ELSE LET i == CHOOSE x \in S : TRUE
         IN  Stod(reading[i]).val + SumOf(S \ {i})

Mutant_DisplayNeverDue(timeNow) == FALSE

Mutant_DisplayAlwaysDue(timeNow) == (timeNow - m_LastReadoutTime) >= 0

Mutant_LockKeptByThread(t) == t

\* The std::unique_lock of line 452 goes out of scope on thread t, by a
\* return or by an exception passing through: the mutex is unlocked.
UniqueLockDestroyed(t) == 0

\* The rate-limit test of lines 460-461.
DisplayDue(timeNow) == (timeNow - m_LastReadoutTime) >= MinDisplayInterval

\* A posted DisplayTemperatureData starts on worker thread t: it locks the
\* display mutex and takes timeNow.  Within the minimum display interval it
\* returns, which unlocks the mutex.
DisplayBegin(t) ==
    /\ thr[t].pc = "idle"
    /\ ~stopped
    /\ posted > 0
    /\ m_TheDisplayMutex = 0
    /\ posted' = posted - 1
    /\ IF DisplayDue(now)
       THEN /\ m_TheDisplayMutex' = t
            /\ thr' = [thr EXCEPT ![t] = [Idle EXCEPT !.pc = "disp467", !.timeNow = now]]
       ELSE UNCHANGED << m_TheDisplayMutex, thr >>
    /\ UNCHANGED << now, binding, stopped, slotVars, connVars, m_LastReadoutTime, line,
                    lineAt, renders, mainPc, reads >>

\* Lines 467-496: the loop over the table, the division and the output.
\* std::stod throws on a reading that is no number: the exception unlocks
\* the mutex, leaves io_context::run() and ends the worker thread.
DisplayRender(t) ==
    /\ thr[t].pc = "disp467"
    /\ LET timeNow == thr[t].timeNow
           used    == Contributors(timeNow)
           torn    == \E i \in Sensors : << reading[i], readingTime[i] >> # committed[i]
       IN  IF \E i \in used : ~Stod(reading[i]).ok
           THEN /\ thr' = [thr EXCEPT ![t] = [Idle EXCEPT !.pc = "exited"]]
                /\ m_TheDisplayMutex' = UniqueLockDestroyed(t)
                /\ UNCHANGED << line, lineAt, renders >>
           ELSE /\ \E out \in ( IF Cardinality(used) = 0
                                THEN NaNLines
                                ELSE { ValueLine(FormatFixed1(SumOf(used),
                                                              Cardinality(used))) } ) :
                     line' = out
                /\ lineAt' = now
                /\ renders' = renders + 1
                /\ thr' = [thr EXCEPT ![t] =
                             [@ EXCEPT !.pc = "disp498", !.used = used,
                                       !.torn = torn, !.out = line']]
                /\ UNCHANGED m_TheDisplayMutex
    /\ UNCHANGED << now, binding, stopped, slotVars, connVars, m_LastReadoutTime, posted,
                    mainPc, reads >>

Mutant_ReadoutTimeOfPassLessOne(t) == thr[t].timeNow - MinDisplayInterval

\* Line 498: the readout time recorded by the pass of thread t is
\* SystemClock_t::now(), the clock read again after the output.
ReadoutTime(t) == now

\* Line 498 and the end of the scope: the readout time is taken from the
\* clock again and the mutex is unlocked.
DisplayFinish(t) ==
    /\ thr[t].pc = "disp498"
    /\ m_LastReadoutTime' = ReadoutTime(t)
    /\ m_TheDisplayMutex' = UniqueLockDestroyed(t)
    /\ thr' = [thr EXCEPT ![t] = Idle]
    /\ UNCHANGED << now, binding, stopped, slotVars, connVars, line, lineAt,
                    renders, posted, mainPc, reads >>

(* ------------------------------- shutdown ------------------------------ *)

\* main() has left Start and is in Common::JoinWorkerThreads.
MainJoining == NUMBER_OF_SENSOR_NODES

\* main() has returned 0.
MainReturned == NUMBER_OF_SENSOR_NODES + 1

\* The signal handler terminator (SIGTERM, SIGINT, SIGQUIT), on whichever
\* thread the signal is delivered to: Common::DestroyWorkerThreads drops the
\* work guard and stops the io_context, then "--.- °C" is written to the
\* readout.  It takes no lock and leaves m_LastReadoutTime alone.  The
\* first signal is modelled.
terminator ==
    /\ ~stopped
    /\ mainPc # MainReturned
    /\ stopped' = TRUE
    /\ line' = SentinelLine
    /\ lineAt' = now
    /\ renders' = renders + 1
    /\ UNCHANGED << now, binding, slotVars, connVars, m_TheDisplayMutex,
                    m_LastReadoutTime, posted, thr, mainPc, reads >>

Mutant_RunNeverReturns(t) == FALSE

\* io_context::run() returns on worker thread t: the io_context is stopped
\* and the thread is not inside a handler.
RunReturns(t) == stopped /\ thr[t].pc = "idle"

\* DispatcherWorkerThread after run() has returned: the thread ends.
WorkerThreadExit(t) ==
    /\ RunReturns(t)
    /\ thr' = [thr EXCEPT ![t] = [Idle EXCEPT !.pc = "exited"]]
    /\ UNCHANGED << now, binding, stopped, slotVars, connVars, displayVars,
                    posted, mainPc, reads >>

(* ------------------------------ main thread ---------------------------- *)

\* Common::JoinWorkerThreads: main() goes on once every worker has ended.
JoinWorkerThreads ==
    /\ mainPc = MainJoining
    /\ \A t \in Threads : thr[t].pc = "exited"
    /\ mainPc' = MainReturned
    /\ UNCHANGED << now, binding, stopped, slotVars, connVars, displayVars, posted, thr,
                    reads >>

(* ---------------------------- specification ---------------------------- *)

Next ==
    \/ Tick
    \/ StartConnect
    \/ \E t \in Threads, i \in Sensors : HandleConnect(t, i)
    \/ \E t \in Threads : HandleConnectNext(t)
    \/ \E t \in Threads, i \in Sensors : ReceiveCompletion(t, i)
    \/ \E t \in Threads : ReceiveStoreTime(t)
    \/ \E t \in Threads : DisplayBegin(t)
    \/ \E t \in Threads : DisplayRender(t)
    \/ \E t \in Threads : DisplayFinish(t)
    \/ JoinWorkerThreads
    \/ terminator
    \/ \E t \in Threads : WorkerThreadExit(t)

Spec == Init /\ [][Next]_vars

\* The same with the scheduling the program relies on: the main thread and
\* a worker thread inside a handler keep running, and the io_context
\* dispatches a ready handler (a posted display call) and returns from run()
\* once stopped.  Nothing is assumed of the network, the clock or signals.
LiveSpec ==
    /\ Spec
    /\ WF_vars(StartConnect)
    /\ WF_vars(JoinWorkerThreads)
    /\ WF_vars(\E t \in Threads : HandleConnectNext(t))
    /\ WF_vars(\E t \in Threads : ReceiveStoreTime(t))
    /\ WF_vars(\E t \in Threads : DisplayBegin(t))
    /\ WF_vars(\E t \in Threads : DisplayRender(t))
    /\ WF_vars(\E t \in Threads : DisplayFinish(t))
    /\ WF_vars(\E t \in Threads : WorkerThreadExit(t))

\* LiveSpec with the network delivering: a connect attempt that has been
\* started completes, with or without an error, and the io_context runs its
\* handler (lines 292-294) unless it has been stopped.
ConnectLiveSpec ==
    /\ LiveSpec
    /\ \A i \in Sensors : SF_vars(\E t \in Threads : HandleConnect(t, i))

(* ------------------------------- claims -------------------------------- *)

\* No handler is running and no display call is waiting in the io_context.
Quiescent == posted = 0 /\ \A t \in Threads : thr[t].pc = "idle"

\* A display pass of thread t has written its line and not yet returned.
Rendered(t) == thr[t].pc = "disp498"

\* C1: any two consecutive displays (the constructor's and those of
\* DisplayTemperatureData) are at least the minimum display interval apart,
\* both as written to the readout and as recorded in m_LastReadoutTime.
RateLimiting ==
    [][ /\ renders' > renders /\ ~stopped' => lineAt' - lineAt >= MinDisplayInterval
        /\ \A t \in Threads :
             Rendered(t) /\ ~Rendered(t)' =>
                m_LastReadoutTime' - m_LastReadoutTime >= MinDisplayInterval
      ]_vars

RateLimitingWitness ==
    /\ renders >= 3
    /\ \E t \in Threads : Rendered(t)
    /\ lineAt - m_LastReadoutTime = MinDisplayInterval

\* C2: a display pass that gets past the rate limit with no fresh reading
\* (count = 0) shows exactly the sentinel "--.- °C".
ZeroDataSentinel ==
    \A t \in Threads : Rendered(t) /\ thr[t].used = {} => thr[t].out = SentinelLine

\* C3: in every display pass, a slot whose reading is as old as the
\* staleness window or older is not among the slots summed and counted,
\* whatever it stores.
StalenessExclusion ==
    \A t \in Threads : Rendered(t) =>
        \A i \in Sensors :
            thr[t].timeNow - readingTime[i] >= StaleWindow => i \notin thr[t].used

StalenessExclusionWitness ==
    \E t \in Threads :
        /\ Rendered(t)
        /\ thr[t].used # {}
        /\ \E i \in Sensors :
             /\ reading[i] # << >>
             /\ thr[t].timeNow - readingTime[i] = StaleWindow

\* The temperature a payload states, in tenths of a degree.
PayloadTenths(r) ==
    CASE r = <<"1", "0", ".", "0">> -> 100
      [] r = <<"4", "0", ".", "0">> -> 400

RECURSIVE TenthsOf(_)
TenthsOf(S) ==
    IF S = {} THEN 0
    ELSE LET i == CHOOSE x \in S : TRUE
         IN  PayloadTenths(reading[i]) + TenthsOf(S \ {i})

\* C4: every render of DisplayTemperatureData shows sum / count over exactly
\* the slots that are fresh and set: with such slots the mean of their
\* temperatures to the nearest tenth, with none the quotient 0.0 / 0.
AverageCorrect ==
    \A t \in Threads : Rendered(t) =>
        LET F   == { i \in Sensors : /\ thr[t].timeNow - readingTime[i] < StaleWindow
                                     /\ Len(reading[i]) > 0 }
            cnt == Cardinality(F)
            d   == 2 * (thr[t].out[2] * cnt - TenthsOf(F))
        IN  IF cnt = 0
            THEN thr[t].out \in NaNLines
            ELSE thr[t].out[1] = "value" /\ d <= cnt /\ 0 - d <= cnt

AverageCorrectWitness ==
    \E t \in Threads :
        /\ Rendered(t)
        /\ Cardinality(thr[t].used) = 2
        /\ line = <<"value", 250>>

\* C5: no display pass reads a slot between the two writes of an update: the
\* (reading, time) pairs it sees are each the pair of one whole update.
AtomicPairUpdate ==
    /\ \A t \in Threads : Rendered(t) => ~thr[t].torn
    /\ \A t1, t2 \in Threads :
         ~(thr[t1].pc = "recv401" /\ thr[t2].pc = "disp467")

AtomicPairUpdateWitness ==
    \E t \in Threads :
        /\ Rendered(t)
        /\ reads >= 2
        /\ \E i \in thr[t].used : readingTime[i] > 0 /\ committed[i][2] > 0

\* C6 (scenario B): a single reading delivered while the debounce window is
\* still active is on the display once the minimum display interval has
\* passed, no other read having completed.
ScenarioB ==
    \A i \in Sensors :
        ( /\ reads = 1
          /\ Quiescent /\ ~stopped
          /\ reading[i] # << >> /\ Stod(reading[i]).ok
          /\ now - readingTime[i] >= MinDisplayInterval
          /\ now - readingTime[i] < StaleWindow )
        => line = ValueLine(Stod(reading[i]).val)

\* C7 (scenario C): after a single reading, with nothing further arriving,
\* the display (last written while the reading was fresh) is back to the
\* sentinel once the reading is older than the staleness window.
ScenarioC ==
    \A i \in Sensors :
        ( /\ reads = 1
          /\ Quiescent /\ ~stopped
          /\ reading[i] # << >> /\ Stod(reading[i]).ok
          /\ lineAt - readingTime[i] < StaleWindow
          /\ now - readingTime[i] >= StaleWindow )
        => line = SentinelLine

\* C8 (scenario E): two updates on different sensors within one debounce
\* window give exactly one render for that window, and it shows both.
ScenarioE ==
    \A i, j \in Sensors :
        ( /\ i # j
          /\ reads = 2
          /\ Quiescent /\ ~stopped
          /\ reading[i] # << >> /\ Stod(reading[i]).ok
          /\ reading[j] # << >> /\ Stod(reading[j]).ok
          /\ readingTime[i] - readingTime[j] < MinDisplayInterval
          /\ readingTime[j] - readingTime[i] < MinDisplayInterval
          /\ now - readingTime[i] < MinDisplayInterval
          /\ now - readingTime[j] < MinDisplayInterval )
        => /\ line = ValueLine(FormatFixed1(Stod(reading[i]).val
                                             + Stod(reading[j]).val, 2))
           /\ lineAt >= readingTime[i] /\ lineAt >= readingTime[j]

\* C9 (scenario A): as long as no sensor has connected, the only line ever
\* displayed is the constructor's sentinel: nothing is posted to or run by
\* the display engine.
ScenarioA ==
    m_NumberOfConnectedSockets = 0 /\ ~stopped =>
        /\ renders = 1 /\ line = SentinelLine /\ lineAt = 0
        /\ posted = 0
        /\ \A t \in Threads : thr[t].pc \in {"idle", "conn372"}

ScenarioAWitness ==
    /\ mainPc = MainJoining
    /\ ~stopped
    /\ \A i \in Sensors : gaveUp[i] = "exhausted"
    /\ Quiescent
    /\ now >= StaleWindow
    /\ m_NumberOfConnectedSockets = 0
    /\ line = SentinelLine

\* A connect attempt is handed to async_connect for slot i in this step.
AttemptStarts(i) == pending[i] # "connect" /\ pending'[i] = "connect"

\* C10: the endpoints of a slot are attempted in resolution order, each at
\* most once, the socket being closed when the next one is attempted; when
\* they are exhausted the slot is given up and never attempted again.
ConnectFallback ==
    [][ /\ \A i \in Sensors :
             AttemptStarts(i) =>
                /\ ~socketOpen[i]
                /\ endpointIter'[i] <= endpoints'[i]
                /\ endpointIter'[i] =
                     IF \E t \in Threads : thr[t].pc = "conn372" /\ thr[t].s = i
                     THEN endpointIter[i] + 1
                     ELSE 1
        /\ \A t \in Threads :
             thr[t].pc = "conn372" /\ thr'[t].pc # "conn372" =>
                LET i == thr[t].s IN
                  IF endpointIter[i] < endpoints[i]
                  THEN AttemptStarts(i) /\ gaveUp'[i] = "no"
                  ELSE pending'[i] = "none" /\ gaveUp'[i] = "exhausted"
        /\ \A i \in Sensors :
             gaveUp[i] # "no" => pending'[i] = "none" /\ gaveUp'[i] = gaveUp[i]
      ]_vars

ConnectFallbackWitness ==
    \E i, j \in Sensors :
        /\ gaveUp[i] = "exhausted"
        /\ pending[j] = "connect" /\ endpointIter[j] = 2 /\ endpoints[j] = 2

\* Slot i is in the receive loop: a read is outstanding on its socket, or
\* its completion handler is running.
Receiving(i) ==
    \/ pending[i] = "receive"
    \/ \E t \in Threads : thr[t].pc = "recv401" /\ thr[t].s = i

\* Slot i has been given up: no endpoint resolved, or every endpoint failed.
Abandoned(i) == gaveUp[i] # "no"

TerminalStates ==
    [][ /\ \A i \in Sensors :
             Receiving(i) =>
                /\ Receiving(i)'
                /\ ~Abandoned(i)'
                /\ pending'[i] # "connect"
                /\ socketOpen'[i]
        /\ \A i \in Sensors :
             Abandoned(i) =>
                /\ gaveUp'[i] = gaveUp[i]
                /\ pending'[i] = "none"
                /\ \A t \in Threads :
                     thr'[t].pc \in {"conn372", "recv401"} => thr'[t].s # i
      ]_vars

TerminalStatesWitness ==
    \E i, j \in Sensors :
        /\ Receiving(i)
        /\ reads >= 2
        /\ Abandoned(j)
        /\ now >= StaleWindow

\* C13: a read that completes with a payload that is no number leaves the
\* slot's reading and reading time as they were: whenever either is written,
\* the reading stored is a number.
ParseErrorDoesNotStore ==
    [][ \A i \in Sensors :
           reading'[i] # reading[i] \/ readingTime'[i] # readingTime[i] =>
              Stod(reading'[i]).ok
      ]_vars

\* C14: a failure on one slot (a failed connect, a read error, a payload that
\* is no number) never stops the worker thread or the process: short of a
\* termination signal every worker thread is still serving the io_context
\* and main has not returned.
FailureIsolation ==
    ~stopped =>
        /\ \A t \in Threads : thr[t].pc # "exited"
        /\ mainPc # MainReturned

\* A read completion handler that was given an error has run in this step.
ReadFailed == reads' = reads + 1 /\ thr' = thr

\* C15: a read that completes with an error changes no slot's reading or
\* reading time, posts no display call, and leaves the read outstanding
\* again on the same open socket.
ReadErrorHandling ==
    [][ ReadFailed =>
           /\ reading' = reading /\ readingTime' = readingTime
           /\ posted' = posted
           /\ pending' = pending /\ socketOpen' = socketOpen
           /\ \E i \in Sensors : pending'[i] = "receive" /\ socketOpen'[i]
      ]_vars

ReadErrorHandlingWitness ==
    /\ binding = "slot"
    /\ reads = MaxReads
    /\ ~stopped /\ Quiescent
    /\ \A i \in Sensors : readingTime[i] < 0
    /\ \E i \in Sensors : pending[i] = "receive"

\* What a step does when it posts a display call or starts a display pass.
TriggerOrderingStep ==
    /\ posted' > posted =>
         /\ posted' = posted + 1
         /\ \E t \in Threads :
              /\ thr[t].pc = "recv401" /\ thr'[t].pc = "idle"
              /\ LET i == thr[t].s IN
                   /\ reading[i] \in Payloads /\ reading'[i] = reading[i]
                   /\ readingTime'[i] = now
                   /\ pending'[i] = "receive"
         /\ UNCHANGED displayVars
    /\ \A t \in Threads :
         thr[t].pc # "disp467" /\ thr'[t].pc = "disp467" =>
            thr[t].pc = "idle" /\ posted' = posted - 1
    /\ \A i \in Sensors : readingTime'[i] >= readingTime[i]

\* C16: a display call is posted only by a read handler that has already
\* stored the received reading and its time in the slot, in a step that
\* leaves the display engine alone (the call is not run inline) and sets the
\* read up again; a display pass starts only as posted work; a slot's
\* reading time never goes back.  So the pass an update triggers sees that
\* update or a newer one.
TriggerOrdering == [][TriggerOrderingStep]_vars

\* C17: every line written to the readout after construction is written by
\* the thread that holds the display mutex, so no two writers ever overlap.
DisplaySerialization ==
    [][ renders' > renders =>
           \E t \in Threads :
              /\ m_TheDisplayMutex = t
              /\ thr[t].pc = "disp467" /\ thr'[t].pc = "disp498"
      ]_vars

\* C18: once the signal handler has stopped the io_context and written the
\* sentinel, the sentinel stays the last line of the readout: no average is
\* displayed by DisplayTemperatureData after it.
ShutdownOrdering ==
    [][ stopped => line'[1] # "value" ]_vars

DueTrigger(k) ==
    /\ renders = k
    /\ posted > 0
    /\ now - m_LastReadoutTime >= MinDisplayInterval
    /\ ~stopped
    /\ \A t \in Threads : thr[t].pc \notin {"disp467", "disp498", "exited"}

\* A line has been written after the k-th, or the worker threads have been
\* stopped (a termination signal, or the exception of a reading that is no
\* number).
RenderedAfter(k) ==
    \/ renders > k
    \/ stopped
    \/ \E t \in Threads : thr[t].pc = "exited"

\* The most lines a run writes: the constructor's, one for each read, and
\* the signal handler's.
MostLines == MaxReads + 2

SingleOrderingDomain ==
    [][ (mainPc' # mainPc /\ mainPc \in Sensors) =>
           \A t \in Threads : thr[t].pc \in {"idle", "exited"}
      ]_vars

\* C22: a slot that has had no successful read has no reading and a reading
\* time older than the staleness window, so it is in no display pass's
\* average; and while Start has initiated no connection, the readout shows
\* the constructor's sentinel and nothing else has been displayed.
InitialState ==
    /\ \A i \in Sensors :
         ~Receiving(i) \/ reading[i] = << >> =>
            /\ reading[i] = << >>
            /\ readingTime[i] = InitialReadingTime
            /\ now - readingTime[i] > StaleWindow
            /\ \A t \in Threads : i \notin thr[t].used
    /\ mainPc = 0 /\ ~stopped =>
         /\ line = SentinelLine /\ renders = 1
         /\ \A i \in Sensors : pending[i] = "none" /\ ~socketOpen[i]

InitialStateWitness ==
    \E t \in Threads : \E i, j \in Sensors :
        /\ Rendered(t)
        /\ thr[t].used = {j}
        /\ reading[i] = << >>
        /\ pending[i] = "receive"
        /\ thr[t].timeNow >= StaleWindow

\* C23: a DisplayTemperatureData call that runs less than the minimum
\* display interval after the last readout writes nothing, leaves
\* m_LastReadoutTime and every slot as they were, and returns with the
\* display mutex free; one that runs later goes on to the render.
DebounceUnchanged ==
    [][ posted' < posted =>
           IF now - m_LastReadoutTime < MinDisplayInterval
           THEN /\ line' = line /\ lineAt' = lineAt /\ renders' = renders
                /\ m_LastReadoutTime' = m_LastReadoutTime
                /\ reading' = reading /\ readingTime' = readingTime
                /\ m_TheDisplayMutex' = 0
                /\ thr' = thr
           ELSE \E t \in Threads :
                   /\ thr'[t].pc = "disp467" /\ thr'[t].timeNow = now
                   /\ m_TheDisplayMutex' = t
      ]_vars

DebounceUnchangedWitness ==
    /\ binding = "slot"
    /\ ~stopped /\ Quiescent
    /\ renders = 1 /\ m_LastReadoutTime = 0
    /\ reads = 1
    /\ \E i \in Sensors : reading[i] # << >> /\ readingTime[i] = 0

\* C24: the readout time a display pass records after its render is the
\* very clock value it took at its start and used for the rate-limit and
\* staleness tests.
DisplayTimestamp ==
    [][ \A t \in Threads :
           Rendered(t) /\ ~Rendered(t)' => m_LastReadoutTime' = thr[t].timeNow
      ]_vars

\* C25: the recorded readout time never goes back, and every display pass
\* that rendered records a later time than the display before it.
MonotonicDisplayTime ==
    [][ /\ m_LastReadoutTime' >= m_LastReadoutTime
        /\ \A t \in Threads :
             Rendered(t) /\ ~Rendered(t)' =>
                /\ m_LastReadoutTime' > m_LastReadoutTime
                /\ thr[t].timeNow > m_LastReadoutTime
      ]_vars

MonotonicDisplayTimeWitness ==
    /\ m_LastReadoutTime >= StaleWindow
    /\ renders >= 3
    /\ ~stopped /\ Quiescent

SlotState(i) ==
    << reading[i], readingTime[i], socketOpen[i], pending[i],
       endpointIter[i], endpoints[i], gaveUp[i] >>

\* C26: a step changes the state of at most one slot, the slot of the
\* handler that takes the step: a reading is stored only by the read
\* completion of its own slot, connect handling touches only its own slot,
\* and no step of a display pass changes any slot.
SlotPartitioning ==
    [][ /\ \A i \in Sensors :
             SlotState(i)' # SlotState(i) =>
                /\ \A j \in Sensors \ {i} : SlotState(j)' = SlotState(j)
                /\ \/ mainPc = i /\ mainPc' # mainPc
                   \/ \E t \in Threads :
                        /\ thr'[t] # thr[t] \/ pending[i] = "connect"
                        /\ thr[t].pc \in {"idle", "conn372", "recv401"}
                        /\ thr[t].pc # "idle" => thr[t].s = i
                        /\ thr'[t].pc # "idle" => thr'[t].s = i
                /\ reading'[i] # reading[i] =>
                     \E t \in Threads :
                        /\ pending[i] = "receive"
                        /\ thr'[t].pc = "recv401" /\ thr'[t].s = i
        /\ (\/ posted' < posted
            \/ \E t \in Threads : thr[t].pc \in {"disp467", "disp498"}
                                  /\ thr'[t] # thr[t])
           => \A i \in Sensors : SlotState(i)' = SlotState(i)
      ]_vars

SlotPartitioningWitness ==
    /\ binding = "slot" /\ ~stopped
    /\ \E t \in Threads : \E i, j \in Sensors :
          /\ i # j
          /\ thr[t].pc = "recv401" /\ thr[t].s = i
          /\ reading[i] = << "4", "0", ".", "0" >>
          /\ reading[j] = << "1", "0", ".", "0" >>
          /\ pending[j] = "receive"

\* C27: when the read completion of slot i has stored its payload and its
\* time, the table's own slot i holds that payload with the current time,
\* which is what the next display pass reads.
ReadingsReachTable ==
    [][ \A t \in Threads :
           thr[t].pc = "recv401" /\ thr'[t].pc # "recv401" =>
              LET i == thr[t].s IN
                /\ reading'[i] # << >>
                /\ readingTime'[i] = now
                /\ committed'[i] = << reading'[i], now >>
      ]_vars

\* C28: once Start has started a slot, and with every started connect
\* attempt completing, the slot comes to receive or is given up (unless the
\* program is shut down first); an attempt under way is always for one of
\* the slot's endpoints, so there are no more attempts than endpoints.
ConnectionPhaseTerminates ==
    /\ \A i \in Sensors :
         (mainPc > i) ~> (Receiving(i) \/ Abandoned(i) \/ stopped)
    /\ [](\A i \in Sensors :
            pending[i] = "connect" =>
               endpointIter[i] >= 1 /\ endpointIter[i] <= endpoints[i])
    /\ [][ \A i \in Sensors :
             AttemptStarts(i) /\ mainPc' = mainPc =>
                endpointIter'[i] > endpointIter[i]
         ]_vars

\* C29: a slot never has more than one asynchronous read outstanding: none
\* before it is connected or while its completion handler runs, and exactly
\* one once the handler has set the read up again.
OneOutstandingRead ==
    \A i \in Sensors :
       /\ outstandingReads[i] <= 1
       /\ ~Receiving(i) => outstandingReads[i] = 0
       /\ Receiving(i) =>
            outstandingReads[i] =
               IF \E t \in Threads : thr[t].pc = "recv401" /\ thr[t].s = i
               THEN 0 ELSE 1

OneOutstandingReadWitness ==
    /\ reads = MaxReads
    /\ \E i \in Sensors : outstandingReads[i] = 1 /\ reading[i] # << >>
    /\ \A t \in Threads : thr[t].pc = "idle"

\* C30: m_NumberOfConnectedSockets is the number of slots that have reached
\* the receive loop and never more than NUMBER_OF_SENSOR_NODES; the "ALL
\* temperature sensor nodes have been successfully connected to" line has
\* been logged once when every slot has reached it, and not at all before.
ConnectedCounter ==
    /\ m_NumberOfConnectedSockets = Cardinality({ i \in Sensors : Receiving(i) })
    /\ m_NumberOfConnectedSockets <= NUMBER_OF_SENSOR_NODES
    /\ allConnectedTraces = IF \A i \in Sensors : Receiving(i) THEN 1 ELSE 0

ConnectedCounterWitness ==
    /\ allConnectedTraces = 1
    /\ m_NumberOfConnectedSockets = NUMBER_OF_SENSOR_NODES
    /\ reads > 0

\* C31: the display mutex is taken only when it is free, it is held only by
\* a thread that is inside a display pass (so it has been released after
\* the construction, after a debounced call, after a render and after an
\* exception), and a held mutex is always released again.
DisplayLockDeadlockFree ==
    /\ [](\A t \in Threads :
            m_TheDisplayMutex = t <=> thr[t].pc \in {"disp467", "disp498"})
    /\ [](m_TheDisplayMutex \in {0} \cup Threads)
    /\ [][ posted' < posted => m_TheDisplayMutex = 0 ]_vars
    /\ \A t \in Threads : (m_TheDisplayMutex = t) ~> (m_TheDisplayMutex = 0)

DisplayLockDeadlockFreeWitness ==
    /\ ~stopped /\ m_TheDisplayMutex = 0 /\ renders >= 2
    /\ \E t \in Threads : thr[t].pc = "exited"

\* C32: while no termination signal has been handled, no worker thread has
\* left io_context::run() and main() has not returned, whatever operations
\* are or are not pending.
WorkGuardKeepsAlive ==
    ~stopped =>
       /\ \A t \in Threads : thr[t].pc # "exited"
       /\ mainPc # MainReturned

\* C33: whenever AsyncConnect is called for a slot, by StartConnect or by
\* HandleConnect going on to the next endpoint, the slot's socket is not
\* open; and a slot that Start has started is connecting, receiving or
\* given up, never silently none of these.
AsyncConnectGuard ==
    /\ [][ /\ \A i \in Sensors :
                mainPc = i /\ mainPc' # mainPc => ~socketOpen[i]
           /\ \A t \in Threads :
                thr[t].pc = "conn372" /\ thr'[t].pc # "conn372" =>
                   ~socketOpen[thr[t].s]
         ]_vars
    /\ [](\A i \in Sensors :
            mainPc > i =>
               \/ pending[i] = "connect"
               \/ \E t \in Threads : thr[t].pc = "conn372" /\ thr[t].s = i
               \/ Receiving(i)
               \/ Abandoned(i))

AsyncConnectGuardWitness ==
    \E i, j \in Sensors :
       /\ pending[i] = "connect" /\ endpointIter[i] = 2 /\ socketOpen[i]
       /\ gaveUp[j] = "exhausted" /\ ~socketOpen[j]

====
